---- MODULE Spec2Model ----
(***************************************************************************)
(* ecs-wait-action (src/src/index.js): one run of the GitHub Action.       *)
(*                                                                         *)
(* The run is a single async function, main(), that suspends at two        *)
(* awaits: the STS AssumeRole call and each ECS waitFor('servicesStable')  *)
(* call.  Each action below is one synchronous segment of the run: from    *)
(* the start, or from the settlement of the awaited promise, up to the     *)
(* next await or the end of main().  The segments are written as functions *)
(* from the run's state (a record s) to its next state, callee first.      *)
(***************************************************************************)
EXTENDS Integers, Sequences, FiniteSets, TLC

\* Largest value of the `retries` input that is explored.
MaxRetries == 3

VARIABLES
  inputs,         \* the action's inputs and process.env.AWS_REGION (read-only)
  pc,             \* where main() is: "start", "sts_wait", "check_wait", "done", "crashed"
  params,         \* main: const params
  credentials,    \* main: const credentials
  ecsConnection,  \* main: const ecsConnection (also params['ecsConnection'])
  currTry,        \* retry: let currTry
  isStable,       \* retry: let isStable
  retryResult,    \* the promise retry(params) returned: pending / returned n / rejected
  inflight,       \* the network calls sent and not yet settled, oldest first
  stsSent,        \* number of stsClient.send calls
  stsResult,      \* how the STS call settled
  checkCalls,     \* the arguments of every waitFor('servicesStable') call, in order
  checkResults,   \* how each of those calls settled, in order
  output,         \* the core.setOutput calls, in order
  failed,         \* the messages of the core.setFailed calls, in order
  console         \* the console.info/warn/error/log lines, in order

vars == <<inputs, pc, params, credentials, ecsConnection, currTry, isStable,
          retryResult, inflight, stsSent, stsResult, checkCalls, checkResults,
          output, failed, console>>

-----------------------------------------------------------------------------
(* JavaScript values *)

\* A JS number that is an integer or NaN.
NaN == [nan |-> TRUE, val |-> 0]
Num(n) == [nan |-> FALSE, val |-> n]

\* a <= b and a > b on JS numbers: every comparison with NaN is false.
Leq(a, b) == ~a.nan /\ ~b.nan /\ a.val <= b.val
Gt(a, b) == ~a.nan /\ ~b.nan /\ a.val > b.val

DigitChars == <<"0", "1", "2", "3", "4", "5", "6", "7", "8", "9">>
IsDigit(c) == \E d \in 1..10 : DigitChars[d] = c
DigitValue(c) == (CHOOSE d \in 1..10 : DigitChars[d] = c) - 1

RECURSIVE DigitPrefix(_)
DigitPrefix(cs) ==
  IF cs = <<>> THEN <<>>
  ELSE IF IsDigit(Head(cs)) THEN <<Head(cs)>> \o DigitPrefix(Tail(cs))
  ELSE <<>>

RECURSIVE DigitsValue(_)
DigitsValue(ds) ==
  IF ds = <<>> THEN 0
  ELSE 10 * DigitsValue(SubSeq(ds, 1, Len(ds) - 1)) + DigitValue(ds[Len(ds)])

\* parseInt(text, 10) on a trimmed text given as its characters: an optional
\* sign, then the longest run of digits; NaN when there is no digit.
parseInt(cs) ==
  LET signed == IF cs = <<>> THEN FALSE ELSE Head(cs) \in {"-", "+"}
      body   == IF signed THEN Tail(cs) ELSE cs
      ds     == DigitPrefix(body)
      neg    == IF signed THEN Head(cs) = "-" ELSE FALSE
  IN IF ds = <<>> THEN NaN
     ELSE Num(IF neg THEN 0 - DigitsValue(ds) ELSE DigitsValue(ds))

RECURSIVE NatString(_)
NatString(n) ==
  IF n < 10 THEN DigitChars[n + 1]
  ELSE NatString(n \div 10) \o DigitChars[(n % 10) + 1]

\* Number.prototype.toString() and the `${n}` of a template literal.
numberToString(x) ==
  IF x.nan THEN "NaN"
  ELSE IF x.val < 0 THEN "-" \o NatString(0 - x.val)
  ELSE NatString(x.val)

\* The string literals the JSON texts of the model are made of.
StringLiterals == {"svcA", "svcB"}

JsonOk(v) == [threw |-> FALSE, message |-> "", value |-> v]
JsonSyntaxError(m) == [threw |-> TRUE, message |-> m, value |-> <<>>]

\* After an element of the array: "," and another element, or "]" and the end.
RECURSIVE JSONparseRest(_, _)
JSONparseRest(ts, acc) ==
  IF ts = <<>> THEN JsonSyntaxError("Unexpected end of JSON input")
  ELSE IF Head(ts) = "]"
    THEN IF Len(ts) = 1 THEN JsonOk(acc) ELSE JsonSyntaxError("Unexpected token")
  ELSE IF Head(ts) = ","
    THEN IF Len(ts) < 2 THEN JsonSyntaxError("Unexpected end of JSON input")
         ELSE IF ts[2] \in StringLiterals
           THEN JSONparseRest(SubSeq(ts, 3, Len(ts)), Append(acc, ts[2]))
         ELSE JsonSyntaxError("Unexpected token")
  ELSE JsonSyntaxError("Unexpected token")

\* A parser that never throws: it gives the string literals of the text.
JSONparseLenient(ts) ==
  JsonOk(SelectSeq(ts, LAMBDA t : t \in StringLiterals))

\* JSON.parse on a text given as its tokens, for arrays of string literals.
JSONparse(ts) ==
  IF ts = <<>> THEN JsonSyntaxError("Unexpected end of JSON input")
  ELSE IF Head(ts) # "[" THEN JsonSyntaxError("Unexpected token")
  ELSE IF Len(ts) < 2 THEN JsonSyntaxError("Unexpected end of JSON input")
  ELSE IF ts[2] = "]"
    THEN IF Len(ts) = 2 THEN JsonOk(<<>>) ELSE JsonSyntaxError("Unexpected token")
  ELSE IF ts[2] \in StringLiterals
    THEN JSONparseRest(SubSeq(ts, 3, Len(ts)), <<ts[2]>>)
  ELSE JsonSyntaxError("Unexpected token")

\* A value a promise rejects with, or a thrown value.  nullish: undefined or
\* null, a rejection that carries no object.
ErrorObject(m, hasOrig, origJson) ==
  [nullish |-> FALSE, message |-> m, hasOriginal |-> hasOrig, originalJson |-> origJson]
NoObject ==
  [nullish |-> TRUE, message |-> "", hasOriginal |-> FALSE, originalJson |-> ""]
TypeErrorOriginalError ==
  ErrorObject("Cannot read properties of undefined (reading 'originalError')", FALSE, "")

NullParams == [null |-> TRUE]
NullCredentials == [null |-> TRUE]
NullConnection == [null |-> TRUE]

-----------------------------------------------------------------------------
(* The environment: inputs and the answers of the two AWS services *)

RetriesInputs ==
  { IF n < 0 THEN <<"-">> \o <<DigitChars[1 - n]>> ELSE <<DigitChars[n + 1]>> : n \in -1..MaxRetries }
    \cup { <<>>, <<"a", "b", "c">>, <<"2", "x">> }

ServicesInputs ==
  { <<"[", "svcA", ",", "svcB", "]">>,
    <<"[", "svcB", "]">>,
    <<"[", "svcA">>,
    <<"[", "svcA", ",", "]">>,
    <<>> }

Inputs ==
  { ("aws-region" :> r) @@ ("AWS_REGION" :> e) @@ ("retries" :> n)
      @@ ("ecs-cluster" :> "cluster1") @@ ("ecs-services" :> sv)
      @@ ("verbose" :> v) @@ ("role-to-assume" :> ro) :
      r \in {"", "eu-central-1", "us-east-1"}, e \in {"", "us-east-1"},
      n \in RetriesInputs, sv \in ServicesInputs,
      v \in {"true", "false"}, ro \in {"", "arn:aws:iam::1:role/deploy"} }

\* The AssumeRole responses and rejections.
StsResponses ==
  { [Credentials |-> [AccessKeyId |-> "AKIA1", SecretAccessKey |-> "secret1",
                      SessionToken |-> "token1"]] }
StsErrors ==
  { ErrorObject("AccessDenied", FALSE, ""), ErrorObject("ValidationError", FALSE, "") }

\* What a waitFor('servicesStable') promise rejects with.
CheckErrors ==
  { ErrorObject("Resource is not in the state servicesStable", TRUE, "{\"code\":\"ResourceNotReady\"}"),
    ErrorObject("Missing credentials in config", FALSE, ""),
    NoObject }

-----------------------------------------------------------------------------
(* The run's state as a record, and the actions' effects on it *)

Cur ==
  [pc |-> pc, params |-> params, credentials |-> credentials,
   ecsConnection |-> ecsConnection, currTry |-> currTry, isStable |-> isStable,
   retryResult |-> retryResult, inflight |-> inflight, stsSent |-> stsSent,
   stsResult |-> stsResult, checkCalls |-> checkCalls,
   checkResults |-> checkResults, output |-> output, failed |-> failed,
   console |-> console]

Commit(s) ==
  /\ pc' = s.pc
  /\ params' = s.params
  /\ credentials' = s.credentials
  /\ ecsConnection' = s.ecsConnection
  /\ currTry' = s.currTry
  /\ isStable' = s.isStable
  /\ retryResult' = s.retryResult
  /\ inflight' = s.inflight
  /\ stsSent' = s.stsSent
  /\ stsResult' = s.stsResult
  /\ checkCalls' = s.checkCalls
  /\ checkResults' = s.checkResults
  /\ output' = s.output
  /\ failed' = s.failed
  /\ console' = s.console
  /\ inputs' = inputs

setFailed(s, message) == [s EXCEPT !.failed = Append(@, message)]
setOutput(s, name, value) ==
  [s EXCEPT !.output = Append(@, [name |-> name, value |-> value])]
consoleWrite(s, level, text) ==
  [s EXCEPT !.console = Append(@, [level |-> level, text |-> text])]

\* A sent call is outstanding until its promise settles.
Send(s, call) == [s EXCEPT !.inflight = Append(@, call)]
Settled(s, call) ==
  LET i == CHOOSE j \in 1..Len(s.inflight) :
             /\ s.inflight[j] = call
             /\ \A k \in 1..(j - 1) : s.inflight[k] # call
  IN [s EXCEPT !.inflight = SubSeq(@, 1, i - 1) \o SubSeq(@, i + 1, Len(@))]

-----------------------------------------------------------------------------
(* main, after retry has returned: lines 128-138 *)

ReportOutcomeAlwaysOutput(s, actualRetries) ==
  LET p   == s.params
      msg == "Service is not stable after " \o numberToString(p.retries) \o " retries!"
      s1  == IF Gt(Num(actualRetries), p.retries) THEN setFailed(s, msg) ELSE s
  IN setOutput(s1, "retries", numberToString(Num(actualRetries)))

ReportOutcome(s, actualRetries) ==
  LET p == s.params
  IN IF Gt(Num(actualRetries), p.retries)
     THEN LET msg == "Service is not stable after " \o numberToString(p.retries) \o " retries!"
              s1  == IF p.verbose THEN consoleWrite(s, "error", msg) ELSE s
          IN setFailed(s1, msg)
     ELSE LET msg == "Service is stable after " \o numberToString(Num(actualRetries)) \o " retries!"
              s1  == IF p.verbose THEN consoleWrite(s, "log", msg) ELSE s
          IN setOutput(s1, "retries", numberToString(Num(actualRetries)))

\* main() has returned: line 142.
MainEnd(s) == [s EXCEPT !.pc = "done"]

CatchMessageGeneric(error) == "Action failed"

\* error.message, line 140.
CatchMessage(error) == error.message

\* catch (error) of main, lines 139-141.  Reading .message of a rejection that
\* carries no object throws inside the handler and main() itself rejects.
MainCatch(s, error) ==
  IF error.nullish THEN [s EXCEPT !.pc = "crashed"]
  ELSE MainEnd(setFailed(s, CatchMessage(error)))

-----------------------------------------------------------------------------
(* retry, lines 28-48, and waitForStability, lines 17-18 *)

\* return currTry, line 47, into main at line 127.
RetryReturn(s) ==
  MainEnd(ReportOutcome(
    [s EXCEPT !.retryResult = [state |-> "returned", value |-> s.currTry]],
    s.currTry))

\* An exception leaves retry: its promise rejects and main's catch takes it.
RetryThrow(s, error) ==
  MainCatch([s EXCEPT !.retryResult = [state |-> "rejected", value |-> s.currTry]], error)

RECURSIVE Reverse(_)
Reverse(q) == IF q = <<>> THEN <<>> ELSE Append(Reverse(Tail(q)), Head(q))

waitForStabilityReversed(s) ==
  [Send(s, "ecs") EXCEPT
     !.checkCalls = Append(@, [ecsConnection |-> s.params.ecsConnection,
                               cluster |-> s.params.cluster,
                               services |-> Reverse(s.params.services),
                               consoleLen |-> Len(s.console)]),
     !.pc = "check_wait"]

\* The call is sent; retry suspends at the await of line 36.  consoleLen is
\* the number of console lines written before the call.
waitForStability(s) ==
  [Send(s, "ecs") EXCEPT
     !.checkCalls = Append(@, [ecsConnection |-> s.params.ecsConnection,
                               cluster |-> s.params.cluster,
                               services |-> s.params.services,
                               consoleLen |-> Len(s.console)]),
     !.pc = "check_wait"]

LoopCondIgnoresStable(ct, retries, stable) == Leq(Num(ct), retries)

LoopCondOneMore(ct, retries, stable) ==
  ~retries.nan /\ ct <= retries.val + 1 /\ ~stable

\* The while condition, line 31.
LoopCond(ct, retries, stable) == Leq(Num(ct), retries) /\ ~stable

RetryLoopTracesAfterCall(s) ==
  IF LoopCond(s.currTry, s.params.retries, s.isStable)
  THEN LET msg == "Waiting for service stability, try #" \o numberToString(Num(s.currTry))
           s1  == waitForStability(s)
       IN IF s.params.verbose THEN consoleWrite(s1, "info", msg) ELSE s1
  ELSE RetryReturn(s)

\* From the head of the while loop to the await, or to the return.
RetryLoop(s) ==
  IF LoopCond(s.currTry, s.params.retries, s.isStable)
  THEN LET msg == "Waiting for service stability, try #" \o numberToString(Num(s.currTry))
           s1  == IF s.params.verbose THEN consoleWrite(s, "info", msg) ELSE s
       IN waitForStability(s1)
  ELSE RetryReturn(s)

\* The awaited check resolved: line 37, then the loop head.
RetryResolved(s) == RetryLoop([s EXCEPT !.isStable = TRUE])

\* The awaited check rejected with err: the catch block, lines 39-44.
RetryCatch(s, err) ==
  LET inc(t) == [t EXCEPT !.currTry = @ + 1]
      msg    == "Try task #" \o numberToString(Num(s.currTry))
                  \o " failed! Error information: "
                  \o (IF err.hasOriginal THEN err.originalJson ELSE "undefined")
  IN IF s.params.verbose
     THEN IF err.nullish
          THEN RetryThrow(s, TypeErrorOriginalError)
          ELSE RetryLoop(inc(consoleWrite(s, "warn", msg)))
     ELSE RetryLoop(inc(s))

retryCountingFromZero(s) ==
  RetryLoop([s EXCEPT !.currTry = 0, !.isStable = FALSE,
                      !.retryResult = [state |-> "pending", value |-> 0]])

\* The call of retry(params), lines 28-30.
retry(s) ==
  RetryLoop([s EXCEPT !.currTry = 1, !.isStable = FALSE,
                      !.retryResult = [state |-> "pending", value |-> 0]])

-----------------------------------------------------------------------------
(* createEcsConnection, assumeRoleInAccount, extractParams, main *)

createEcsConnection(creds) ==
  [null |-> FALSE, apiVersion |-> "2014-11-13",
   accessKeyId |-> creds.accessKeyId,
   secretAccessKey |-> creds.secretAccessKey,
   sessionToken |-> creds.sessionToken,
   region |-> creds.region]

\* main from the value of `await assumeRoleInAccount()` on: lines 117-127.
MainAfterCredentials(s, creds) ==
  LET s1 == [s EXCEPT !.credentials = creds]
  IN IF s1.params.null THEN MainEnd(s1)
     ELSE LET conn == createEcsConnection(creds)
              s2   == [s1 EXCEPT !.ecsConnection = conn,
                                 !.params = @ @@ ("ecsConnection" :> conn)]
          IN retry(s2)

\* The fields of a promise that is used as if it were the credentials.
PromiseAsCredentials ==
  [null |-> FALSE, accessKeyId |-> "undefined", secretAccessKey |-> "undefined",
   sessionToken |-> "undefined", region |-> "undefined"]

NoAwaitAssumeRole(s) == MainAfterCredentials(s, PromiseAsCredentials)

\* main suspends at the await of line 117.
AwaitAssumeRole(s) == [s EXCEPT !.pc = "sts_wait"]

\* assumeRoleInAccount up to its await: lines 69-74.
assumeRoleInAccountSend(s) == [Send(s, "sts") EXCEPT !.stsSent = @ + 1]

\* assumeRoleInAccount after its await: lines 75-80.
assumeRoleInAccountReturn(assumedRole) ==
  [null |-> FALSE,
   accessKeyId |-> assumedRole.Credentials.AccessKeyId,
   secretAccessKey |-> assumedRole.Credentials.SecretAccessKey,
   sessionToken |-> assumedRole.Credentials.SessionToken,
   region |-> "eu-central-1"]

ConfigInvalidRegionOnly(p) == p.region = ""

\* The condition of line 100.
ConfigInvalid(p) == p.assumeRole = "" \/ p.region = ""

CredentialsNotFound ==
  "AWS credentials were not found in inputs or environment variables."

\* extractParams, lines 90-108: whether it threw, what it returned and the
\* state it left (core.setFailed at line 101).
extractParams(s, inp) ==
  LET services == JSONparse(inp["ecs-services"])
      p == [null       |-> FALSE,
            region     |-> IF inp["aws-region"] # "" THEN inp["aws-region"]
                           ELSE inp["AWS_REGION"],
            retries    |-> parseInt(inp["retries"]),
            cluster    |-> inp["ecs-cluster"],
            services   |-> services.value,
            verbose    |-> inp["verbose"] = "true",
            assumeRole |-> inp["role-to-assume"]]
  IN IF services.threw
     THEN [threw |-> TRUE, error |-> ErrorObject(services.message, FALSE, ""),
           params |-> NullParams, state |-> s]
     ELSE IF ConfigInvalid(p)
     THEN [threw |-> FALSE, error |-> NoObject, params |-> NullParams,
           state |-> setFailed(s, CredentialsNotFound)]
     ELSE [threw |-> FALSE, error |-> NoObject, params |-> p, state |-> s]

\* main from its start to the await of line 117.
main(s, inp) ==
  LET r == extractParams(s, inp)
  IN IF r.threw THEN MainCatch(r.state, r.error)
     ELSE AwaitAssumeRole(assumeRoleInAccountSend([r.state EXCEPT !.params = r.params]))

-----------------------------------------------------------------------------
(* The continuations of the two awaits, from the settlement of the call *)

\* await assumeRoleInAccount() gives the credentials: lines 74-80, 117-127.
OnStsResolved(s, assumedRole) ==
  MainAfterCredentials(
    [Settled(s, "sts") EXCEPT !.stsResult = [state |-> "resolved"]],
    assumeRoleInAccountReturn(assumedRole))

\* await assumeRoleInAccount() throws: lines 74, 117, 139-141.
OnStsRejected(s, error) ==
  MainCatch(
    [Settled(s, "sts") EXCEPT !.stsResult = [state |-> "rejected", error |-> error]],
    error)

\* await waitForStability(params) returns: lines 36-37.
OnCheckResolved(s) ==
  RetryResolved(
    [Settled(s, "ecs") EXCEPT
       !.checkResults = Append(@, [resolved |-> TRUE, error |-> NoObject])])

\* await waitForStability(params) throws err: lines 36, 39-44.
OnCheckRejected(s, err) ==
  RetryCatch(
    [Settled(s, "ecs") EXCEPT
       !.checkResults = Append(@, [resolved |-> FALSE, error |-> err])],
    err)

-----------------------------------------------------------------------------
(* The state machine *)

Init ==
  /\ inputs \in Inputs
  /\ pc = "start"
  /\ params = NullParams
  /\ credentials = NullCredentials
  /\ ecsConnection = NullConnection
  /\ currTry = 1
  /\ isStable = FALSE
  /\ retryResult = [state |-> "notcalled", value |-> 0]
  /\ inflight = <<>>
  /\ stsSent = 0
  /\ stsResult = [state |-> "none"]
  /\ checkCalls = <<>>
  /\ checkResults = <<>>
  /\ output = <<>>
  /\ failed = <<>>
  /\ console = <<>>

\* main() is called: line 144.
Main ==
  /\ pc = "start"
  /\ Commit(main(Cur, inputs))

\* The AssumeRole call resolves.
StsResolves ==
  /\ pc = "sts_wait"
  /\ \E assumedRole \in StsResponses : Commit(OnStsResolved(Cur, assumedRole))

\* The AssumeRole call rejects: assumeRoleInAccount rejects, main's catch runs.
StsRejects ==
  /\ pc = "sts_wait"
  /\ \E error \in StsErrors : Commit(OnStsRejected(Cur, error))

\* The waitFor('servicesStable') call resolves.
CheckResolves ==
  /\ pc = "check_wait"
  /\ Commit(OnCheckResolved(Cur))

\* The waitFor('servicesStable') call rejects.
CheckRejects ==
  /\ pc = "check_wait"
  /\ \E err \in CheckErrors : Commit(OnCheckRejected(Cur, err))

Next == Main \/ StsResolves \/ StsRejects \/ CheckResolves \/ CheckRejects

Spec == Init /\ [][Next]_vars

\* Every call that was sent settles, and the continuation of a settled await
\* runs: the segment that is enabled is eventually taken.
FairSpec == Spec /\ WF_vars(Next)

-----------------------------------------------------------------------------
(* Vocabulary of the properties *)

RoleInput == inputs["role-to-assume"]
ResolvedRegion ==
  IF inputs["aws-region"] # "" THEN inputs["aws-region"] ELSE inputs["AWS_REGION"]

\* The ecs-services texts that are not valid JSON, with the message of the
\* SyntaxError that JSON.parse throws on each.
MalformedServices ==
  (<<>> :> "Unexpected end of JSON input")
    @@ (<<"[", "svcA">> :> "Unexpected end of JSON input")
    @@ (<<"[", "svcA", ",", "]">> :> "Unexpected token")
ServicesMalformed == inputs["ecs-services"] \in DOMAIN MalformedServices

ValidConfig == ~ServicesMalformed /\ RoleInput # "" /\ ResolvedRegion # ""

Terminated == pc \in {"done", "crashed"}
RetryEntered == retryResult.state # "notcalled"
Invocations == Len(checkCalls)
Rejections == Cardinality({i \in 1..Len(checkResults) : ~checkResults[i].resolved})
RetriesOutput(k) == <<[name |-> "retries", value |-> ToString(k)]>>
NotStable(n) == "Service is not stable after " \o ToString(n) \o " retries!"

-----------------------------------------------------------------------------
(* Properties *)

\* C1: for maxAttempts >= 1 and 1 <= k <= maxAttempts, when the stability
\* check has rejected on attempts 1..k-1 and resolved on attempt k, retry has
\* returned k and the check has been invoked exactly k times, in that state
\* and ever after.
C1_ReturnsAttemptOfFirstSuccess ==
  RetryEntered =>
    \A k \in 1..Len(checkResults) :
      ( /\ ~params.retries.nan
        /\ params.retries.val >= 1
        /\ k <= params.retries.val
        /\ \A i \in 1..(k - 1) : ~checkResults[i].resolved
        /\ checkResults[k].resolved )
      => /\ retryResult = [state |-> "returned", value |-> k]
         /\ Invocations = k

C1_Witness ==
  /\ pc = "done"
  /\ retryResult = [state |-> "returned", value |-> 2]
  /\ params.retries = Num(2)
  /\ Len(checkResults) = 2
  /\ ~checkResults[1].resolved
  /\ checkResults[2].resolved

\* C2: for maxAttempts >= 1, a run of retry in which every attempt of the
\* stability check rejected ends with retry returning maxAttempts + 1 after
\* exactly maxAttempts invocations.
C2_ExhaustionReturnsMaxPlusOne ==
  ( /\ pc = "done"
    /\ RetryEntered
    /\ ~params.retries.nan
    /\ params.retries.val >= 1
    /\ \A i \in 1..Len(checkResults) : ~checkResults[i].resolved )
  => /\ retryResult = [state |-> "returned", value |-> params.retries.val + 1]
     /\ Invocations = params.retries.val

\* C3: when role-to-assume or the resolved region is absent, no network call
\* is ever sent: neither the role-assumption call nor a stability check.
C3_NoNetworkCallOnMissingConfig ==
  (RoleInput = "" \/ ResolvedRegion = "") =>
    /\ stsSent = 0
    /\ Invocations = 0
    /\ inflight = <<>>

\* C4: when role-to-assume is missing, no connection is ever constructed and
\* no stability check is ever invoked, whether the role-assumption call
\* resolves or rejects, and the run ends with a configuration failure reported
\* first: the missing-credentials message, or the JSON syntax error when the
\* service list is malformed too.
C4_MissingRoleNeverConnects ==
  RoleInput = "" =>
    /\ ecsConnection = NullConnection
    /\ Invocations = 0
    /\ ~RetryEntered
    /\ pc # "crashed"
    /\ pc = "done" =>
         /\ failed # <<>>
         /\ failed[1] = IF ServicesMalformed
                        THEN MalformedServices[inputs["ecs-services"]]
                        ELSE CredentialsNotFound
         /\ output = <<>>

C4_Witness ==
  /\ RoleInput = ""
  /\ ResolvedRegion # ""
  /\ pc = "done"
  /\ stsResult.state = "resolved"
  /\ failed = <<CredentialsNotFound>>

\* C5: a run with valid configuration, retries = N >= 1 and a successful role
\* assumption ends with output retries = the decimal string of k when some
\* attempt k <= N resolved, and otherwise with the one fatal failure
\* "Service is not stable after N retries!".
C5_OutputOrNotStable ==
  (pc = "done" /\ ValidConfig /\ stsResult.state = "resolved"
     /\ ~params.retries.nan /\ params.retries.val >= 1)
  => LET N  == params.retries.val
         ks == {k \in 1..Len(checkResults) : k <= N /\ checkResults[k].resolved}
     IN IF ks # {}
        THEN (\E k \in ks : output = RetriesOutput(k)) /\ failed = <<>>
        ELSE output = <<>> /\ failed = <<NotStable(N)>>

\* C6: a terminated run has set the output `retries` or has reported a fatal
\* failure, never both and never neither.
C6_OutcomeIsBinary ==
  Terminated => ((output # <<>>) # (failed # <<>>))

C6_Witness ==
  /\ pc = "done"
  /\ retryResult.state = "returned"
  /\ Len(checkResults) = 2
  /\ failed # <<>>
  /\ output = <<>>

\* C7: the role-assumption call is sent at most once; once it has rejected
\* the run is over with no connection constructed, no stability check invoked,
\* no output set, and the rejection's message as the fatal failure.
C7_StsRejectionIsFatal ==
  /\ stsSent <= 1
  /\ stsResult.state = "rejected" =>
       /\ pc = "done"
       /\ stsSent = 1
       /\ inflight = <<>>
       /\ ecsConnection = NullConnection
       /\ Invocations = 0
       /\ output = <<>>
       /\ failed # <<>>
       /\ failed[Len(failed)] = stsResult.error.message

C7_Witness ==
  /\ ValidConfig
  /\ stsResult.state = "rejected"
  /\ failed = <<"AccessDenied">>

\* C8: when ecs-services is not valid JSON the run sends no network call and
\* ends at once with the syntax error's message as its only fatal failure.
C8_MalformedServicesIsFatal ==
  ServicesMalformed =>
    /\ pc \in {"start", "done"}
    /\ stsSent = 0
    /\ Invocations = 0
    /\ inflight = <<>>
    /\ pc = "done" =>
         /\ failed = <<MalformedServices[inputs["ecs-services"]]>>
         /\ output = <<>>

C8_Witness ==
  /\ inputs["ecs-services"] = <<"[", "svcA", ",", "]">>
  /\ RoleInput # ""
  /\ pc = "done"
  /\ failed = <<"Unexpected token">>

\* C9: at most one network call is outstanding; a stability check is started
\* only after the role-assumption call has resolved and after every earlier
\* stability check has settled.
C9_OneCallInFlight ==
  /\ Len(inflight) <= 1
  /\ Invocations <= Len(checkResults) + 1
  /\ Invocations = Len(checkResults) + 1 => inflight = <<"ecs">>
  /\ Invocations > 0 => stsResult.state = "resolved"
  /\ stsSent = 1 /\ stsResult.state = "none" => inflight = <<"sts">>

C9_Witness ==
  /\ Invocations = 2
  /\ Len(checkResults) = 1
  /\ inflight = <<"ecs">>

\* C10: every rejection of the stability check is absorbed inside retry,
\* whatever the rejected value and whether verbose is on or off: retry never
\* rejects, and the attempt counter is one more than the number of rejections.
C10_RejectionsAbsorbed ==
  /\ retryResult.state # "rejected"
  /\ RetryEntered => currTry = 1 + Rejections

-----------------------------------------------------------------------------
(* The run with the verbose flag flipped, on the same answers *)

\* The state main() starts in.
RunStart ==
  [pc |-> "start", params |-> NullParams, credentials |-> NullCredentials,
   ecsConnection |-> NullConnection, currTry |-> 1, isStable |-> FALSE,
   retryResult |-> [state |-> "notcalled", value |-> 0], inflight |-> <<>>,
   stsSent |-> 0, stsResult |-> [state |-> "none"], checkCalls |-> <<>>,
   checkResults |-> <<>>, output |-> <<>>, failed |-> <<>>, console |-> <<>>]

\* The run continued over the given results of the stability checks, for as
\* long as it is waiting for one.
RECURSIVE Replay(_, _)
Replay(s, results) ==
  IF results = <<>> \/ s.pc # "check_wait" THEN s
  ELSE Replay(IF Head(results).resolved THEN OnCheckResolved(s)
              ELSE OnCheckRejected(s, Head(results).error),
              Tail(results))

\* The run on the inputs inp whose role assumption resolved and whose
\* stability checks settled as in `results`.
RunOn(inp, results) ==
  Replay(OnStsResolved(main(RunStart, inp), CHOOSE r \in StsResponses : TRUE), results)

FlippedVerbose ==
  [inputs EXCEPT !["verbose"] = IF @ = "true" THEN "false" ELSE "true"]

\* The replay of the run itself is the run.
ReplayIsFaithful == RetryEntered => RunOn(inputs, checkResults) = Cur

\* C11: tracing has no effect on control flow: the run of retry with the
\* verbose flag flipped, on the same results of the stability checks, has made
\* the same number of invocations, and has returned the same count or has
\* rejected just as this run has.
C11_VerboseHasNoEffectOnControlFlow ==
  RetryEntered =>
    LET twin == RunOn(FlippedVerbose, checkResults)
    IN /\ Len(twin.checkCalls) = Invocations
       /\ twin.retryResult = retryResult
       /\ twin.currTry = currTry

-----------------------------------------------------------------------------
(* The attempt counter *)

\* retry was called with a maxAttempts >= 1.
PositiveBudget ==
  RetryEntered /\ ~params.retries.nan /\ params.retries.val >= 1

CounterInRange ==
  PositiveBudget =>
    /\ 1 <= currTry
    /\ currTry <= params.retries.val + 1
    /\ checkResults = <<>> => currTry = 1
    /\ \A k \in 1..Len(checkResults) : checkResults[k].resolved => currTry = k
    /\ (currTry = params.retries.val + 1)
         <=> (retryResult.state = "returned" /\ ~isStable)

CounterStep ==
  LET settled == Len(checkResults') = Len(checkResults) + 1
  IN /\ currTry' # currTry =>
          /\ currTry' = currTry + 1
          /\ settled
          /\ ~checkResults'[Len(checkResults')].resolved
     /\ (settled /\ checkResults'[Len(checkResults')].resolved) => currTry' = currTry

\* C12: for maxAttempts >= 1 the attempt counter stays within
\* 1..maxAttempts + 1; it starts at 1, changes only by +1 and only in a step
\* in which an attempt rejects, is unchanged by a resolving attempt, equals k
\* when the k-th attempt succeeded, and equals maxAttempts + 1 exactly when the
\* loop has ended by exhaustion.
C12_AttemptCounterInvariant == [](CounterInRange) /\ [][CounterStep]_vars

C12_Witness ==
  /\ RetryEntered
  /\ params.retries = Num(2)
  /\ currTry = 3
  /\ retryResult = [state |-> "returned", value |-> 3]
  /\ Len(checkResults) = 2

-----------------------------------------------------------------------------
(* Termination *)

\* The attempts retry may make: maxAttempts, and none when maxAttempts is
\* zero, negative or not a number.
Budget ==
  IF params.retries.nan \/ params.retries.val < 0 THEN 0 ELSE params.retries.val

InvocationsWithinBudget ==
  /\ ~RetryEntered => Invocations = 0
  /\ RetryEntered => Invocations <= Budget

TerminalIsReported == Terminated => (output # <<>> \/ failed # <<>>)

\* C13: when every call that is sent settles, every run reaches a terminal
\* state, with the output set or a fatal failure reported, and the stability
\* check is invoked at most maxAttempts times on the way.
C13_RunTerminatesWithinBudget ==
  /\ <>Terminated
  /\ [](InvocationsWithinBudget /\ TerminalIsReported)

C13_Witness ==
  /\ pc = "done"
  /\ RetryEntered
  /\ params.retries = Num(3)
  /\ Invocations = 3
  /\ failed = <<NotStable(3)>>

-----------------------------------------------------------------------------
(* Tracing *)

VerboseOn == inputs["verbose"] = "true"
InfoLines == SelectSeq(console, LAMBDA l : l.level = "info")
TraceLine(n) ==
  [level |-> "info", text |-> "Waiting for service stability, try #" \o ToString(n)]

\* C14: with verbose on, the attempt traces are exactly those of attempts
\* 1, 2, ..., m in this order, m the number of stability-check invocations, and
\* the trace of attempt n is the last line written before the n-th invocation
\* is started; with verbose off no attempt trace is written.
C14_TraceBeforeEachAttempt ==
  /\ VerboseOn =>
       /\ Len(InfoLines) = Invocations
       /\ \A n \in 1..Invocations :
            /\ InfoLines[n] = TraceLine(n)
            /\ checkCalls[n].consoleLen >= 1
            /\ console[checkCalls[n].consoleLen] = TraceLine(n)
  /\ ~VerboseOn => InfoLines = <<>>

C14_Witness ==
  /\ VerboseOn
  /\ Invocations = 3
  /\ InfoLines = <<TraceLine(1), TraceLine(2), TraceLine(3)>>
  /\ Len(console) = 5

-----------------------------------------------------------------------------
(* The entry point *)

\* Each step of main starts only when the steps before it have completed.
LaterStepsInOrder ==
  /\ pc = "start" => (params = NullParams /\ failed = <<>> /\ stsSent = 0)
  /\ ~ecsConnection.null =>
       (stsResult.state = "resolved" /\ ~credentials.null /\ ~params.null)
  /\ RetryEntered => ~ecsConnection.null
  /\ Invocations > 0 => RetryEntered
  /\ output # <<>> => retryResult.state = "returned"

\* Credentials are acquired only after the validation has succeeded.
ValidationBeforeCredentials == stsSent > 0 => ~params.null

\* C15: the steps of a run occur in the order read parameters, validate,
\* acquire credentials, build connection, run retry, report outcome; no step
\* starts before the earlier ones have completed successfully, and a failed
\* validation stops the run before credentials are acquired.
C15_EntryPointOrdering == LaterStepsInOrder /\ ValidationBeforeCredentials

\* The service lists that the valid ecs-services texts denote.
ExpectedServices ==
  (<<"[", "svcA", ",", "svcB", "]">> :> <<"svcA", "svcB">>)
    @@ (<<"[", "svcB", "]">> :> <<"svcB">>)

SameArgumentsOnEveryAttempt ==
  \A n \in 1..Invocations :
    /\ checkCalls[n].cluster = inputs["ecs-cluster"]
    /\ checkCalls[n].services = ExpectedServices[inputs["ecs-services"]]
    /\ checkCalls[n].ecsConnection = ecsConnection

RetryKeepsParams ==
  RetryEntered => (params' = params /\ ecsConnection' = ecsConnection)

\* C16: every invocation of the stability check gets the cluster and the
\* ordered service list parsed from the inputs at startup, and the run's
\* connection; the retry loop changes none of them between attempts.
C16_SameClusterAndServicesEveryAttempt ==
  [](SameArgumentsOnEveryAttempt) /\ [][RetryKeepsParams]_vars

C16_Witness ==
  /\ Invocations = 2
  /\ checkCalls[1].services = <<"svcA", "svcB">>
  /\ checkCalls[2].services = <<"svcA", "svcB">>
  /\ checkCalls[2].cluster = "cluster1"

\* C17: whatever the retries input parses to, a run that sets the output
\* `retries` has seen a stability check resolve.
C17_SuccessNeedsAStableCheck ==
  output # <<>> => \E i \in 1..Len(checkResults) : checkResults[i].resolved

\* C18: core.setFailed is invoked at most once in a run.
C18_AtMostOneFailureReport == Len(failed) <= 1

\* C19: the connection used for the stability checks is constructed with the
\* run's resolved region: the region of the credentials passed to
\* createEcsConnection, and of the connection, is the region of the parameters.
C19_ConnectionUsesResolvedRegion ==
  ~ecsConnection.null =>
    /\ credentials.region = params.region
    /\ ecsConnection.region = params.region
    /\ params.region = ResolvedRegion

====
